---- MODULE Spec2Model ----
(***************************************************************************)
(* The canvas renderer of SVGAPlayer-Web-Lite                              *)
(* (src/player/offscreen.canvas.render.ts): render, resetShapeStyles,      *)
(* drawBezier, drawBezierElement, drawEllipse and drawRect, as functions   *)
(* from their inputs to the sequence of calls they issue on the 2D         *)
(* context, and the 2D context as the state those calls act on.            *)
(*                                                                         *)
(* Numbers are exact rationals <<n, d>> in lowest terms with d > 0; the    *)
(* pair <<0, 0>> stands for a value that is not a number (NaN, and an      *)
(* absent field, which the code only ever reads through `||` or Number()). *)
(* Strings the code parses are sequences of one-character strings.         *)
(***************************************************************************)
EXTENDS Integers, Sequences, FiniteSets, TLC

VARIABLES
  pc,               \* position in render: "start", "forEach", "image", "dynamic", "shapes", "done"
  hasContext,       \* canvas.getContext('2d') !== null
  bitmapCache,      \* the image keys the bitmap cache holds an image for
  dynamicElements,  \* image key -> <<>> or <<dynamic element>>
  spriteNo,         \* sprites of videoItem.sprites already iterated
  sprite,           \* <<>> or <<the sprite of the current / last iteration>>
  shapeNo,          \* shapes of the current frame already iterated
  shape,            \* <<>> or <<the shape drawn by the last step>>
  context,          \* the 2D context: saved states, current state
  baseDepth,        \* depth of the context's save stack when render was called
  calls,            \* the context calls issued by the last step, in order
  blits             \* the images blitted so far for the current sprite

vars == <<pc, hasContext, bitmapCache, dynamicElements, spriteNo, sprite,
          shapeNo, shape, context, baseDepth, calls, blits>>

(***************************************************************************)
(* Numbers                                                                 *)
(***************************************************************************)
Abs(n) == IF n < 0 THEN -n ELSE n

RECURSIVE GCD(_, _)
GCD(a, b) == IF b = 0 THEN a ELSE GCD(b, a % b)

NaN == <<0, 0>>

Rat(n, d) ==
  IF d = 0 THEN NaN
  ELSE LET g == GCD(Abs(n), Abs(d))
           s == IF d < 0 THEN -1 ELSE 1
       IN <<(s * n) \div g, (s * d) \div g>>

Num(n) == <<n, 1>>

IsNaN(a) == a[2] = 0

RAdd(a, b) == Rat(a[1] * b[2] + b[1] * a[2], a[2] * b[2])
RSub(a, b) == Rat(a[1] * b[2] - b[1] * a[2], a[2] * b[2])
RMul(a, b) == Rat(a[1] * b[1], a[2] * b[2])
\* a / b for b # 0 (the inputs keep divisors positive)
RDiv(a, b) == IF b[1] < 0 THEN Rat(-(a[1] * b[2]), a[2] * (-b[1]))
              ELSE Rat(a[1] * b[2], a[2] * b[1])
\* a < b, false when either is not a number
RLess(a, b) == ~IsNaN(a) /\ ~IsNaN(b) /\ a[1] * b[2] < b[1] * a[2]
RLeq(a, b) == ~IsNaN(a) /\ ~IsNaN(b) /\ a[1] * b[2] <= b[1] * a[2]
RMin(a, b) == IF IsNaN(a) \/ IsNaN(b) THEN NaN ELSE IF RLess(b, a) THEN b ELSE a
RMax(a, b) == IF IsNaN(a) \/ IsNaN(b) THEN NaN ELSE IF RLess(a, b) THEN b ELSE a

\* JavaScript truthiness of a number: neither 0 nor NaN (nor absent)
Truthy(a) == a[2] # 0 /\ a[1] # 0
\* a || b on numbers
OrElse(a, b) == IF Truthy(a) THEN a ELSE b

(***************************************************************************)
(* Strings                                                                 *)
(***************************************************************************)
Letter == {"a","b","c","d","e","f","g","h","i","j","k","l","m","n","o","p","q",
           "r","s","t","u","v","w","x","y","z","A","B","C","D","E","F","G","H",
           "I","J","K","L","M","N","O","P","Q","R","S","T","U","V","W","X","Y",
           "Z"}

validMethods == {"M","L","H","V","C","S","Q","R","Z","m","l","h","v","c","s","q","r","z"}

DigitValue(c) ==
  CASE c = "0" -> 0 [] c = "1" -> 1 [] c = "2" -> 2 [] c = "3" -> 3 [] c = "4" -> 4
    [] c = "5" -> 5 [] c = "6" -> 6 [] c = "7" -> 7 [] c = "8" -> 8 [] c = "9" -> 9
    [] OTHER -> -1

\* d.replace(/([a-zA-Z])/g, '|||$1 '): the marker '|||' is one element
RECURSIVE ReplaceLetters(_)
ReplaceLetters(s) ==
  IF s = <<>> THEN <<>>
  ELSE (IF Head(s) \in Letter THEN <<"|||", Head(s), " ">> ELSE <<Head(s)>>)
       \o ReplaceLetters(Tail(s))

\* .replace(/,/g, ' ')
RECURSIVE ReplaceCommas(_)
ReplaceCommas(s) ==
  IF s = <<>> THEN <<>>
  ELSE <<IF Head(s) = "," THEN " " ELSE Head(s)>> \o ReplaceCommas(Tail(s))

\* String.prototype.split(sep) for a one-element separator
RECURSIVE SplitFrom(_, _, _)
SplitFrom(s, sep, cur) ==
  IF s = <<>> THEN <<cur>>
  ELSE IF Head(s) = sep THEN <<cur>> \o SplitFrom(Tail(s), sep, <<>>)
  ELSE SplitFrom(Tail(s), sep, Append(cur, Head(s)))

Split(s, sep) == SplitFrom(s, sep, <<>>)

RECURSIVE TrimStart(_)
TrimStart(s) == IF s # <<>> /\ Head(s) = " " THEN TrimStart(Tail(s)) ELSE s

RECURSIVE TrimEnd(_)
TrimEnd(s) ==
  IF s # <<>> /\ s[Len(s)] = " " THEN TrimEnd(SubSeq(s, 1, Len(s) - 1)) ELSE s

Trim(s) == TrimEnd(TrimStart(s))

\* the value of a run of decimal digits, -1 when a character is no digit
RECURSIVE DigitsValue(_, _)
DigitsValue(s, acc) ==
  IF s = <<>> THEN acc
  ELSE IF DigitValue(Head(s)) < 0 THEN -1
  ELSE DigitsValue(Tail(s), 10 * acc + DigitValue(Head(s)))

\* Number(text): '' is 0, a signed run of digits its value, anything else NaN
NumberOfText(s) ==
  LET t == Trim(s) IN
  IF t = <<>> THEN Num(0)
  ELSE LET neg  == Head(t) = "-"
           body == IF neg \/ Head(t) = "+" THEN Tail(t) ELSE t
           v    == DigitsValue(body, 0)
       IN IF body = <<>> \/ v < 0 THEN NaN ELSE Num(IF neg THEN -v ELSE v)

\* Number(args[i]), i counted from 0; a missing argument is undefined, so NaN
Arg(args, i) == IF i + 1 <= Len(args) THEN NumberOfText(args[i + 1]) ELSE NaN

(***************************************************************************)
(* Calls on the 2D context                                                 *)
(***************************************************************************)
\* a call: its method (or the property it assigns), its numeric arguments,
\* and for drawImage the image passed ("bitmap" or "dynamic")
Call(op, args) == [op |-> op, args |-> args, src |-> ""]
Blit(src, args) == [op |-> "drawImage", args |-> args, src |-> src]

Zero == Num(0)
One == Num(1)

\* context.transform(t.a || 1, t.b || 0, t.c || 0, t.d || 1, t.tx || 0, t.ty || 0)
TransformCall(t) ==
  Call("transform", <<OrElse(t.a, One), OrElse(t.b, Zero), OrElse(t.c, Zero),
                      OrElse(t.d, One), OrElse(t.tx, Zero), OrElse(t.ty, Zero)>>)

\* styles is <<>> (absent) or <<[fill, stroke, lineDash]>>
resetShapeStyles(styles) ==
  <<Call("strokeStyle", <<>>), Call("lineWidth", <<>>), Call("lineCap", <<>>),
    Call("lineJoin", <<>>), Call("miterLimit", <<>>), Call("fillStyle", <<>>)>>
  \o (IF \E i \in 1..3 : Truthy(styles.lineDash[i])
      THEN <<Call("setLineDash",
                  [i \in 1..3 |-> OrElse(styles.lineDash[i], Zero)])>>
      ELSE <<>>)

\* variant: fill and stroke are independent ifs
PaintCalls_Both(styles) ==
  (IF styles # <<>> /\ styles[1].fill THEN <<Call("fill", <<>>)>> ELSE <<>>)
  \o (IF styles # <<>> /\ styles[1].stroke THEN <<Call("stroke", <<>>)>> ELSE <<>>)

\* if (styles && styles.fill) fill() else if (styles && styles.stroke) stroke()
PaintCalls(styles) ==
  IF styles # <<>> /\ styles[1].fill THEN <<Call("fill", <<>>)>>
  ELSE IF styles # <<>> /\ styles[1].stroke THEN <<Call("stroke", <<>>)>>
  ELSE <<>>

\* save(); obj._styles && resetShapeStyles(...); if (obj._transform) transform(...)
ShapePrologue(transform, styles) ==
  <<Call("save", <<>>)>>
  \o (IF styles # <<>> THEN resetShapeStyles(styles[1]) ELSE <<>>)
  \o (IF transform # <<>> THEN <<TransformCall(transform[1])>> ELSE <<>>)

(***************************************************************************)
(* The path language                                                       *)
(***************************************************************************)
InitialPoint == [x |-> Zero, y |-> Zero, x1 |-> Zero, y1 |-> Zero,
                 x2 |-> Zero, y2 |-> Zero]

\* variant: only the second control point is tested
SmoothIsCubic_SecondOnly(p) == Truthy(p.x2) /\ Truthy(p.y2)

\* the S/s test: currentPoint.x1 && currentPoint.y1 && currentPoint.x2 && currentPoint.y2
SmoothIsCubic(p) == Truthy(p.x1) /\ Truthy(p.y1) /\ Truthy(p.x2) /\ Truthy(p.y2)

CubicCall(p) == Call("bezierCurveTo", <<p.x1, p.y1, p.x2, p.y2, p.x, p.y>>)
QuadCall(p) == Call("quadraticCurveTo", <<p.x1, p.y1, p.x, p.y>>)

\* one command: the current point after it and the calls it issues
drawBezierElement(p, method, args) ==
  LET A(i) == Arg(args, i)
      Out(q, c) == [point |-> q, calls |-> c]
      Move(q) == Out(q, <<Call("moveTo", <<q.x, q.y>>)>>)
      Line(q) == Out(q, <<Call("lineTo", <<q.x, q.y>>)>>)
  IN
  CASE method = "M" -> Move([p EXCEPT !.x = A(0), !.y = A(1)])
    [] method = "m" -> Move([p EXCEPT !.x = RAdd(p.x, A(0)), !.y = RAdd(p.y, A(1))])
    [] method = "L" -> Line([p EXCEPT !.x = A(0), !.y = A(1)])
    [] method = "l" -> Line([p EXCEPT !.x = RAdd(p.x, A(0)), !.y = RAdd(p.y, A(1))])
    [] method = "H" -> Line([p EXCEPT !.x = A(0)])
    [] method = "h" -> Line([p EXCEPT !.x = RAdd(p.x, A(0))])
    [] method = "V" -> Line([p EXCEPT !.y = A(0)])
    [] method = "v" -> Line([p EXCEPT !.y = RAdd(p.y, A(0))])
    [] method = "C" ->
         LET q == [x1 |-> A(0), y1 |-> A(1), x2 |-> A(2), y2 |-> A(3),
                   x |-> A(4), y |-> A(5)]
         IN Out(q, <<CubicCall(q)>>)
    [] method = "c" ->
         LET q == [x1 |-> RAdd(p.x, A(0)), y1 |-> RAdd(p.y, A(1)),
                   x2 |-> RAdd(p.x, A(2)), y2 |-> RAdd(p.y, A(3)),
                   x |-> RAdd(p.x, A(4)), y |-> RAdd(p.y, A(5))]
         IN Out(q, <<CubicCall(q)>>)
    [] method = "S" ->
         IF SmoothIsCubic(p)
         THEN LET q == [x1 |-> RAdd(RSub(p.x, p.x2), p.x),
                        y1 |-> RAdd(RSub(p.y, p.y2), p.y),
                        x2 |-> A(0), y2 |-> A(1), x |-> A(2), y |-> A(3)]
              IN Out(q, <<CubicCall(q)>>)
         ELSE LET q == [p EXCEPT !.x1 = A(0), !.y1 = A(1), !.x = A(2), !.y = A(3)]
              IN Out(q, <<QuadCall(q)>>)
    [] method = "s" ->
         IF SmoothIsCubic(p)
         THEN LET q == [x1 |-> RAdd(RSub(p.x, p.x2), p.x),
                        y1 |-> RAdd(RSub(p.y, p.y2), p.y),
                        x2 |-> RAdd(p.x, A(0)), y2 |-> RAdd(p.y, A(1)),
                        x |-> RAdd(p.x, A(2)), y |-> RAdd(p.y, A(3))]
              IN Out(q, <<CubicCall(q)>>)
         ELSE LET q == [p EXCEPT !.x1 = RAdd(p.x, A(0)), !.y1 = RAdd(p.y, A(1)),
                                 !.x = RAdd(p.x, A(2)), !.y = RAdd(p.y, A(3))]
              IN Out(q, <<QuadCall(q)>>)
    [] method = "Q" ->
         LET q == [p EXCEPT !.x1 = A(0), !.y1 = A(1), !.x = A(2), !.y = A(3)]
         IN Out(q, <<QuadCall(q)>>)
    [] method = "q" ->
         LET q == [p EXCEPT !.x1 = RAdd(p.x, A(0)), !.y1 = RAdd(p.y, A(1)),
                            !.x = RAdd(p.x, A(2)), !.y = RAdd(p.y, A(3))]
         IN Out(q, <<QuadCall(q)>>)
    [] method \in {"Z", "z"} -> Out(p, <<Call("closePath", <<>>)>>)
    [] OTHER -> Out(p, <<>>)

\* const d = obj._d.replace(/([a-zA-Z])/g, '|||$1 ').replace(/,/g, ' '); d.split('|||')
Segments(d) == Split(ReplaceCommas(ReplaceLetters(d)), "|||")

\* variant: the arguments are split without trim()
SegmentArgs_NoTrim(segment) == Split(Tail(segment), " ")

\* segment.substr(1).trim().split(' ')
SegmentArgs(segment) == Split(Trim(Tail(segment)), " ")

\* the forEach over the segments, from current point p
RECURSIVE DrawSegments(_, _)
DrawSegments(segs, p) ==
  IF segs = <<>> THEN <<>>
  ELSE LET segment == Head(segs) IN
       IF Len(segment) = 0 \/ Head(segment) \notin validMethods
       THEN DrawSegments(Tail(segs), p)
       ELSE LET r == drawBezierElement(p, Head(segment), SegmentArgs(segment))
            IN r.calls \o DrawSegments(Tail(segs), r.point)

\* the calls between beginPath() and the fill/stroke decision
PathCalls(d) == DrawSegments(Segments(d), InitialPoint)

\* variant: the closing restore() is missing
drawBezier_NoRestore(d, transform, styles) ==
  ShapePrologue(transform, styles)
  \o <<Call("beginPath", <<>>)>>
  \o PathCalls(d)
  \o PaintCalls(styles)

drawBezier(d, transform, styles) ==
  ShapePrologue(transform, styles)
  \o <<Call("beginPath", <<>>)>>
  \o PathCalls(d)
  \o PaintCalls(styles)
  \o <<Call("restore", <<>>)>>

(***************************************************************************)
(* Ellipses and rectangles                                                 *)
(***************************************************************************)
kappa == Rat(5522848, 10000000)
Two == Num(2)

drawEllipse(e, transform, styles) ==
  LET x  == RSub(e.x, e.radiusX)
      y  == RSub(e.y, e.radiusY)
      w  == RMul(e.radiusX, Two)
      h  == RMul(e.radiusY, Two)
      ox == RMul(RDiv(w, Two), kappa)
      oy == RMul(RDiv(h, Two), kappa)
      xe == RAdd(x, w)
      ye == RAdd(y, h)
      xm == RAdd(x, RDiv(w, Two))
      ym == RAdd(y, RDiv(h, Two))
  IN
  ShapePrologue(transform, styles)
  \o <<Call("beginPath", <<>>),
       Call("moveTo", <<x, ym>>),
       Call("bezierCurveTo", <<x, RSub(ym, oy), RSub(xm, ox), y, xm, y>>),
       Call("bezierCurveTo", <<RAdd(xm, ox), y, xe, RSub(ym, oy), xe, ym>>),
       Call("bezierCurveTo", <<xe, RAdd(ym, oy), RAdd(xm, ox), ye, xm, ye>>),
       Call("bezierCurveTo", <<RSub(xm, ox), ye, x, RAdd(ym, oy), x, ym>>)>>
  \o PaintCalls(styles)
  \o <<Call("restore", <<>>)>>

\* variant: the radius is clamped against the width alone
ClampRadius_WidthOnly(width, height, cornerRadius) ==
  IF RLess(width, RMul(Two, cornerRadius)) THEN RDiv(width, Two) ELSE cornerRadius

\* let radius = cornerRadius; if (width < 2 * radius) radius = width / 2;
\* if (height < 2 * radius) radius = height / 2
ClampRadius(width, height, cornerRadius) ==
  LET r1 == IF RLess(width, RMul(Two, cornerRadius))
            THEN RDiv(width, Two) ELSE cornerRadius
  IN IF RLess(height, RMul(Two, r1)) THEN RDiv(height, Two) ELSE r1

drawRect(r, transform, styles) ==
  LET x == r.x
      y == r.y
      width == r.width
      height == r.height
      radius == ClampRadius(width, height, r.cornerRadius)
      xw == RAdd(x, width)
      yh == RAdd(y, height)
  IN
  ShapePrologue(transform, styles)
  \o <<Call("beginPath", <<>>),
       Call("moveTo", <<RAdd(x, radius), y>>),
       Call("arcTo", <<xw, y, xw, yh, radius>>),
       Call("arcTo", <<xw, yh, x, yh, radius>>),
       Call("arcTo", <<x, yh, x, y, radius>>),
       Call("arcTo", <<x, y, xw, y, radius>>),
       Call("closePath", <<>>)>>
  \o PaintCalls(styles)
  \o <<Call("restore", <<>>)>>

(***************************************************************************)
(* The 2D context                                                          *)
(***************************************************************************)
\* the drawing state save() pushes and restore() pops: global alpha, the
\* transforms applied so far, and how many clip() calls are in effect
CallerState == [globalAlpha |-> One, transforms |-> <<>>, clips |-> 0]

NewContext(depth) == [stack |-> [i \in 1..depth |-> CallerState], g |-> CallerState]

Apply(c, call) ==
  CASE call.op = "save" -> [c EXCEPT !.stack = Append(c.stack, c.g)]
    [] call.op = "restore" ->
         IF c.stack = <<>> THEN c
         ELSE [stack |-> SubSeq(c.stack, 1, Len(c.stack) - 1),
               g |-> c.stack[Len(c.stack)]]
    [] call.op = "globalAlpha" -> [c EXCEPT !.g.globalAlpha = call.args[1]]
    [] call.op = "transform" -> [c EXCEPT !.g.transforms = Append(@, call.args)]
    [] call.op = "clip" -> [c EXCEPT !.g.clips = @ + 1]
    [] OTHER -> c

\* a call as issued: with the depth of the save stack and whether a clip
\* region is in effect at the moment of the call
Issued(c, call) ==
  [op |-> call.op, args |-> call.args, src |-> call.src,
   depth |-> Len(c.stack), clipped |-> c.g.clips > 0]

RECURSIVE Run(_, _, _)
Run(c, cs, log) ==
  IF cs = <<>> THEN [context |-> c, log |-> log]
  ELSE Run(Apply(c, Head(cs)), Tail(cs), Append(log, Issued(c, Head(cs))))

(***************************************************************************)
(* render, per sprite                                                      *)
(***************************************************************************)
AlphaMin == Rat(5, 100)

\* variant: the threshold itself counts as invisible (<=)
Skipped_Inclusive(frameItem) == RLeq(frameItem.alpha, AlphaMin)

\* if (frameItem.alpha < 0.05) return
Skipped(frameItem) == RLess(frameItem.alpha, AlphaMin)

\* save(); globalAlpha = alpha; transform(...)
OpenCalls(frameItem) ==
  <<Call("save", <<>>),
    Call("globalAlpha", <<frameItem.alpha>>),
    TransformCall(frameItem.transform)>>

\* const img = sprite.imageKey && bitmapCache[sprite.imageKey]
HasBitmap(cache, imageKey) == imageKey # "" /\ imageKey \in cache

\* if (frameItem.clipPath) { drawBezier(context, {_d: frameItem.clipPath}); context.clip() }
ClipCalls(frameItem) ==
  IF frameItem.clipPath # <<>>
  THEN drawBezier(frameItem.clipPath, <<>>, <<>>) \o <<Call("clip", <<>>)>>
  ELSE <<>>

\* context.drawImage(img, 0, 0)
BitmapBlit == <<Blit("bitmap", <<Zero, Zero>>)>>

\* variant: the bitmap gives way to a dynamic element under the same key
BitmapCalls_UnlessOverridden(cache, sp) ==
  IF HasBitmap(cache, sp.imageKey)
     /\ ~(sp.imageKey \in DOMAIN dynamicElements /\ dynamicElements[sp.imageKey] # <<>>)
  THEN ClipCalls(sp.frame) \o BitmapBlit
  ELSE <<>>

\* variant: the clip is scoped to the bitmap's blit
BitmapCalls_ScopedClip(cache, sp) ==
  IF HasBitmap(cache, sp.imageKey)
  THEN <<Call("save", <<>>)>> \o ClipCalls(sp.frame) \o BitmapBlit
       \o <<Call("restore", <<>>)>>
  ELSE <<>>

\* variant: the clip is set after the bitmap is blitted
BitmapCalls_ClipAfterBlit(cache, sp) ==
  IF HasBitmap(cache, sp.imageKey)
  THEN BitmapBlit \o ClipCalls(sp.frame)
  ELSE <<>>

\* if (img) { if (clipPath) { drawBezier(...); clip() } drawImage(img, 0, 0) }
BitmapCalls(cache, sp) ==
  IF HasBitmap(cache, sp.imageKey)
  THEN ClipCalls(sp.frame) \o BitmapBlit
  ELSE <<>>

\* const dynamicElement = sprite.imageKey && dynamicElements[sprite.imageKey]
DynamicOf(elements, imageKey) ==
  IF imageKey # "" /\ imageKey \in DOMAIN elements THEN elements[imageKey] ELSE <<>>

\* 'fit' in dynamicElement ? dynamicElement : {source: dynamicElement, fit: 'none'}
FitOf(element) == IF element.fit # <<>> THEN element.fit[1] ELSE "none"

\* variant: contain scales by the larger ratio
ContainRatio_Max(wRatio, hRatio) == RMax(wRatio, hRatio)

\* contain: const ratio = Math.min(wRatio, hRatio)
ContainRatio(wRatio, hRatio) == RMin(wRatio, hRatio)

\* cover: const ratio = Math.max(wRatio, hRatio)
CoverRatio(wRatio, hRatio) == RMax(wRatio, hRatio)

\* the switch on fit: one drawImage of the source
DynamicCalls(element, layout) ==
  LET fit == FitOf(element)
      sourceWidth == element.source.width
      sourceHeight == element.source.height
      wRatio == RDiv(layout.width, sourceWidth)
      hRatio == RDiv(layout.height, sourceHeight)
      Scaled(ratio) ==
        LET width == RMul(ratio, sourceWidth)
            height == RMul(ratio, sourceHeight)
        IN <<Blit("dynamic", <<RDiv(RSub(layout.width, width), Two),
                               RDiv(RSub(layout.height, height), Two),
                               width, height>>)>>
  IN
  CASE fit = "contain" -> Scaled(ContainRatio(wRatio, hRatio))
    [] fit = "cover" -> Scaled(CoverRatio(wRatio, hRatio))
    [] fit = "fill" -> <<Blit("dynamic", <<Zero, Zero, layout.width, layout.height>>)>>
    [] OTHER -> <<Blit("dynamic", <<RDiv(RSub(layout.width, sourceWidth), Two),
                                    RDiv(RSub(layout.height, sourceHeight), Two)>>)>>

\* the dispatch of one shape of frameItem.shapes
ShapeCalls(sh) ==
  IF sh.type = "SHAPE" /\ sh.shape # <<>> /\ sh.shape[1].d # <<>>
  THEN drawBezier(sh.shape[1].d, sh.transform, sh.styles)
  ELSE IF sh.type = "ELLIPSE" /\ sh.ellipse # <<>>
  THEN drawEllipse([x |-> OrElse(sh.ellipse[1].x, Zero),
                    y |-> OrElse(sh.ellipse[1].y, Zero),
                    radiusX |-> OrElse(sh.ellipse[1].radiusX, Zero),
                    radiusY |-> OrElse(sh.ellipse[1].radiusY, Zero)],
                   sh.transform, sh.styles)
  ELSE IF sh.type = "RECT" /\ sh.rect # <<>>
  THEN drawRect([x |-> OrElse(sh.rect[1].x, Zero),
                 y |-> OrElse(sh.rect[1].y, Zero),
                 width |-> OrElse(sh.rect[1].width, Zero),
                 height |-> OrElse(sh.rect[1].height, Zero),
                 cornerRadius |-> OrElse(sh.rect[1].cornerRadius, Zero)],
                sh.transform, sh.styles)
  ELSE <<>>

(***************************************************************************)
(* Inputs                                                                  *)
(***************************************************************************)
MaxSprites == 2
MaxShapes == 2

Keys == {"k1"}
BaseDepths == {0, 1}

\* "M0 0 L10 0 L10 10 Z"
TrianglePath == <<"M","0"," ","0"," ","L","1","0"," ","0"," ",
                  "L","1","0"," ","1","0"," ","Z">>

\* a transform none of whose components is set, and a quarter turn
UnsetTransform == [a |-> NaN, b |-> NaN, c |-> NaN, d |-> NaN, tx |-> NaN, ty |-> NaN]
QuarterTurn == [a |-> Zero, b |-> One, c |-> Num(-1), d |-> Zero, tx |-> Num(3), ty |-> NaN]

Layout == [width |-> Num(4), height |-> Num(2)]

Frames ==
  [alpha : {Rat(4, 100), Rat(5, 100), One},
   transform : {UnsetTransform, QuarterTurn},
   layout : {Layout},
   clipPath : {<<>>, TrianglePath}]

Sprites == [imageKey : {"", "k1"}, frame : Frames]

Source == [width |-> Num(2), height |-> Num(2)]

DynamicElements ==
  [fit : {<<>>, <<"contain">>, <<"cover">>, <<"fill">>, <<"none">>}, source : {Source}]

NoDash == <<NaN, NaN, NaN>>
Styles ==
  {<<>>,
   <<[fill |-> FALSE, stroke |-> FALSE, lineDash |-> NoDash]>>,
   <<[fill |-> TRUE, stroke |-> FALSE, lineDash |-> NoDash]>>,
   <<[fill |-> FALSE, stroke |-> TRUE, lineDash |-> <<Num(2), Zero, NaN>>]>>,
   <<[fill |-> TRUE, stroke |-> TRUE, lineDash |-> NoDash]>>}

ShapeOf(type, payload, transform, styles) ==
  [type |-> type,
   shape |-> IF type = "SHAPE" THEN payload ELSE <<>>,
   ellipse |-> IF type = "ELLIPSE" THEN payload ELSE <<>>,
   rect |-> IF type = "RECT" THEN payload ELSE <<>>,
   transform |-> transform, styles |-> styles]

Circle == [x |-> Num(2), y |-> NaN, radiusX |-> Num(2), radiusY |-> Num(1)]
Box == [x |-> NaN, y |-> Num(1), width |-> Num(4), height |-> Num(2),
        cornerRadius |-> Num(3)]

\* the shapes a frame may list: drawn ones of each kind, and ones no branch draws
Shapes ==
  {ShapeOf(k[1], k[2], t, st) :
     k \in {<<"SHAPE", <<[d |-> TrianglePath]>>>>, <<"ELLIPSE", <<Circle>>>>,
            <<"RECT", <<Box>>>>},
     t \in {<<>>, <<QuarterTurn>>}, st \in Styles}
  \cup {ShapeOf("SHAPE", <<[d |-> <<>>]>>, <<>>, <<[fill |-> TRUE, stroke |-> FALSE, lineDash |-> NoDash]>>),
        ShapeOf("KEEP", <<>>, <<>>, <<[fill |-> TRUE, stroke |-> FALSE, lineDash |-> NoDash]>>),
        ShapeOf("RECT", <<>>, <<>>, <<[fill |-> TRUE, stroke |-> FALSE, lineDash |-> NoDash]>>)}

\* the shapes the frames of a whole render list
FrameShapes ==
  {ShapeOf("SHAPE", <<[d |-> TrianglePath]>>, <<>>, <<[fill |-> TRUE, stroke |-> FALSE, lineDash |-> NoDash]>>),
   ShapeOf("SHAPE", <<[d |-> TrianglePath]>>, <<QuarterTurn>>, <<[fill |-> FALSE, stroke |-> TRUE, lineDash |-> <<Num(2), Zero, NaN>>]>>),
   ShapeOf("ELLIPSE", <<Circle>>, <<>>, <<[fill |-> FALSE, stroke |-> TRUE, lineDash |-> <<Num(2), Zero, NaN>>]>>),
   ShapeOf("RECT", <<Box>>, <<QuarterTurn>>, <<[fill |-> TRUE, stroke |-> FALSE, lineDash |-> NoDash]>>),
   ShapeOf("RECT", <<Box>>, <<>>, <<>>),
   ShapeOf("KEEP", <<>>, <<>>, <<[fill |-> TRUE, stroke |-> FALSE, lineDash |-> NoDash]>>)}

MaxCmds == 3
MaxSize == 3

\* decimal text of an integer
DigitChar(k) == <<"0", "1", "2", "3", "4", "5", "6", "7", "8", "9">>[k + 1]

RECURSIVE DigitsOf(_)
DigitsOf(n) ==
  IF n < 10 THEN <<DigitChar(n)>> ELSE DigitsOf(n \div 10) \o <<DigitChar(n % 10)>>

Text(n) == IF n < 0 THEN <<"-">> \o DigitsOf(-n) ELSE DigitsOf(n)

RECURSIVE Joined(_, _)
Joined(nums, sep) ==
  IF nums = <<>> THEN <<>>
  ELSE IF Len(nums) = 1 THEN Text(nums[1])
  ELSE Text(nums[1]) \o <<sep>> \o Joined(Tail(nums), sep)

\* a path as content writes it: each command its letter and its arguments
\* separated by sep, the commands separated by a space
RECURSIVE PathText(_, _)
PathText(cmds, sep) ==
  IF cmds = <<>> THEN <<>>
  ELSE <<cmds[1].m>> \o Joined(cmds[1].a, sep)
       \o (IF Len(cmds) = 1 THEN <<>> ELSE <<" ">> \o PathText(Tail(cmds), sep))

Cmd(m, a) == [m |-> m, a |-> a]

LineCommands ==
  {Cmd("M", <<0, 0>>), Cmd("m", <<1, -1>>), Cmd("L", <<10, 0>>), Cmd("l", <<-2, 5>>),
   Cmd("H", <<7>>), Cmd("h", <<-3>>), Cmd("V", <<4>>), Cmd("v", <<2>>),
   Cmd("Z", <<>>), Cmd("z", <<>>)}

CurveCommands ==
  {Cmd("M", <<5, 5>>), Cmd("C", <<1, 2, 3, 4, 5, 6>>), Cmd("C", <<0, 2, 10, 4, 5, 6>>),
   Cmd("c", <<1, 1, 2, 2, 3, 3>>), Cmd("S", <<10, 10, 20, 0>>),
   Cmd("s", <<1, 1, 2, 2>>), Cmd("Q", <<0, 2, 3, 4>>), Cmd("q", <<1, 1, 2, 2>>)}

SeqsUpTo(S, n) == UNION {[1..k -> S] : k \in 0..n}

Triangle == <<Cmd("M", <<0, 0>>), Cmd("L", <<10, 0>>), Cmd("L", <<10, 10>>), Cmd("Z", <<>>)>>
SmoothAtStart == <<Cmd("M", <<0, 0>>), Cmd("S", <<10, 10, 20, 0>>)>>

\* a path shape without transform or styles; commands is what d was written from
PathShape(cmds, sep) ==
  [type |-> "SHAPE", shape |-> <<[d |-> PathText(cmds, sep)]>>, ellipse |-> <<>>,
   rect |-> <<>>, transform |-> <<>>, styles |-> <<>>, commands |-> cmds]

PathShapes ==
  {PathShape(cmds, sep) :
     cmds \in SeqsUpTo(LineCommands, MaxCmds) \cup SeqsUpTo(CurveCommands, MaxCmds)
               \cup {Triangle, SmoothAtStart},
     sep \in {" ", ","}}

\* rectangles of whole-number size with corner radii in halves
RectShapes ==
  {ShapeOf("RECT",
           <<[x |-> Num(1), y |-> Zero, width |-> Num(w), height |-> Num(h),
              cornerRadius |-> Rat(k, 2)]>>, <<>>, st) :
     w \in 0..MaxSize, h \in 0..MaxSize, k \in 0..(2 * MaxSize + 1),
     st \in {<<>>, <<[fill |-> TRUE, stroke |-> FALSE, lineDash |-> NoDash]>>}}

(***************************************************************************)
(* render as a state machine                                               *)
(***************************************************************************)
Init ==
  /\ pc = "start"
  /\ hasContext \in BOOLEAN
  /\ bitmapCache \in SUBSET Keys
  /\ dynamicElements \in [Keys -> {<<>>} \cup {<<e>> : e \in DynamicElements}]
  /\ baseDepth \in BaseDepths
  /\ context = NewContext(baseDepth)
  /\ spriteNo = 0
  /\ sprite = <<>>
  /\ shapeNo = 0
  /\ shape = <<>>
  /\ calls = <<>>
  /\ blits = <<>>

\* the sources of the drawImage calls of a log, in order
RECURSIVE BlitsOf(_)
BlitsOf(log) ==
  IF log = <<>> THEN <<>>
  ELSE (IF Head(log).op = "drawImage" THEN <<Head(log).src>> ELSE <<>>)
       \o BlitsOf(Tail(log))

\* issue cs on the context
Issue(cs) ==
  LET r == Run(context, cs, <<>>) IN
  /\ context' = r.context
  /\ calls' = r.log

\* context === null: console.error, return canvas
RenderFail ==
  /\ pc = "start"
  /\ ~hasContext
  /\ pc' = "done"
  /\ UNCHANGED <<hasContext, bitmapCache, dynamicElements, spriteNo, sprite,
                 shapeNo, shape, context, baseDepth, calls, blits>>

RenderBegin ==
  /\ pc = "start"
  /\ hasContext
  /\ pc' = "forEach"
  /\ UNCHANGED <<hasContext, bitmapCache, dynamicElements, spriteNo, sprite,
                 shapeNo, shape, context, baseDepth, calls, blits>>

\* an iteration whose frame is below the alpha threshold
SkipSprite ==
  /\ pc = "forEach"
  /\ spriteNo < MaxSprites
  /\ \E sp \in Sprites :
       /\ Skipped(sp.frame)
       /\ sprite' = <<sp>>
  /\ spriteNo' = spriteNo + 1
  /\ shapeNo' = 0
  /\ shape' = <<>>
  /\ calls' = <<>>
  /\ blits' = <<>>
  /\ UNCHANGED <<pc, hasContext, bitmapCache, dynamicElements, context, baseDepth>>

\* an iteration that draws: the scoped block is opened
OpenSprite ==
  /\ pc = "forEach"
  /\ spriteNo < MaxSprites
  /\ \E sp \in Sprites :
       /\ ~Skipped(sp.frame)
       /\ sprite' = <<sp>>
       /\ Issue(OpenCalls(sp.frame))
  /\ pc' = "image"
  /\ shapeNo' = 0
  /\ shape' = <<>>
  /\ blits' = <<>>
  /\ UNCHANGED <<hasContext, bitmapCache, dynamicElements, spriteNo, baseDepth>>

DrawBitmap ==
  /\ pc = "image"
  /\ Issue(BitmapCalls(bitmapCache, sprite[1]))
  /\ blits' = blits \o BlitsOf(calls')
  /\ pc' = "dynamic"
  /\ UNCHANGED <<hasContext, bitmapCache, dynamicElements, spriteNo, sprite,
                 shapeNo, shape, baseDepth>>

DrawDynamic ==
  /\ pc = "dynamic"
  /\ LET el == DynamicOf(dynamicElements, sprite[1].imageKey) IN
       Issue(IF el # <<>> THEN DynamicCalls(el[1], sprite[1].frame.layout) ELSE <<>>)
  /\ blits' = blits \o BlitsOf(calls')
  /\ pc' = "shapes"
  /\ UNCHANGED <<hasContext, bitmapCache, dynamicElements, spriteNo, sprite,
                 shapeNo, shape, baseDepth>>

\* one iteration of frameItem.shapes.forEach, the shape taken from S
DrawShapeFrom(S) ==
  /\ pc = "shapes"
  /\ shapeNo < MaxShapes
  /\ \E sh \in S :
       /\ shape' = <<sh>>
       /\ Issue(ShapeCalls(sh))
  /\ shapeNo' = shapeNo + 1
  /\ UNCHANGED <<pc, hasContext, bitmapCache, dynamicElements, spriteNo, sprite,
                 baseDepth, blits>>

DrawShape == DrawShapeFrom(FrameShapes)

\* the shapes (shapeNo of them) are exhausted: context.restore()
CloseSprite ==
  /\ pc = "shapes"
  /\ Issue(<<Call("restore", <<>>)>>)
  /\ pc' = "forEach"
  /\ spriteNo' = spriteNo + 1
  /\ shape' = <<>>
  /\ UNCHANGED <<hasContext, bitmapCache, dynamicElements, sprite, shapeNo,
                 baseDepth, blits>>

\* the sprites are exhausted: return canvas
RenderReturn ==
  /\ pc = "forEach"
  /\ pc' = "done"
  /\ calls' = <<>>
  /\ UNCHANGED <<hasContext, bitmapCache, dynamicElements, spriteNo, sprite,
                 shapeNo, shape, context, baseDepth, blits>>

Next ==
  \/ RenderFail
  \/ RenderBegin
  \/ SkipSprite
  \/ OpenSprite
  \/ DrawBitmap
  \/ DrawDynamic
  \/ DrawShape
  \/ CloseSprite
  \/ RenderReturn

Spec == Init /\ [][Next]_vars

(***************************************************************************)
(* Properties of render                                                    *)
(***************************************************************************)
InBlock == pc \in {"image", "dynamic", "shapes"}
Frame == sprite[1].frame
ImageKey == sprite[1].imageKey
\* the frame's alpha is below 0.05 = 1/20
BelowThreshold == 20 * Frame.alpha[1] < Frame.alpha[2]
BitmapResolved == ImageKey # "" /\ ImageKey \in bitmapCache
Overridden == ImageKey # "" /\ dynamicElements[ImageKey] # <<>>
Paints == {"fill", "stroke"}
Ops(log) == {log[i].op : i \in 1..Len(log)}
Positions(log, ops) == {i \in 1..Len(log) : log[i].op \in ops}

\* C1: a sprite whose frame has alpha < 0.05 gets no context call at all,
\* whatever bitmap, override or clip path it carries (the context is left
\* as it was); a sprite with alpha >= 0.05 is never skipped: its block is
\* opened and, once its iteration is over, closed by a restore.
C1_InvisibleSpriteIssuesNothing ==
  /\ (pc = "forEach" /\ sprite # <<>> /\ BelowThreshold)
       => calls = <<>> /\ blits = <<>> /\ context = NewContext(baseDepth)
  /\ InBlock => ~BelowThreshold
  /\ (pc = "forEach" /\ sprite # <<>> /\ ~BelowThreshold)
       => Len(calls) = 1 /\ calls[1].op = "restore"

C1_Witness ==
  /\ pc = "forEach" /\ sprite # <<>> /\ BelowThreshold
  /\ BitmapResolved /\ Overridden /\ Frame.clipPath # <<>>

\* C2: save/restore are balanced and nested: between sprites and at return
\* the context is exactly as render found it (depth, global alpha,
\* transform, clip); inside a sprite's block the depth is one more than at
\* entry after every step, whatever was drawn; no call is ever issued
\* below the depth at entry.
C2_SaveRestoreBalanced ==
  /\ pc \in {"start", "forEach", "done"} => context = NewContext(baseDepth)
  /\ InBlock => context.stack = Append(NewContext(baseDepth).stack, CallerState)
  /\ \A i \in 1..Len(calls) : calls[i].depth >= baseDepth
  /\ pc \in {"dynamic", "shapes"} => \A i \in 1..Len(calls) : calls[i].depth > baseDepth

C2_Witness ==
  /\ pc = "forEach" /\ spriteNo = 2 /\ shapeNo = 2 /\ baseDepth = 1
  /\ BitmapResolved /\ Overridden /\ Frame.clipPath # <<>>

\* C3 (as claimed): for a sprite with an override the bitmap is never
\* blitted: the image slot gets exactly one drawImage, the override's.
C3_OverrideReplacesBitmap ==
  (pc = "shapes" /\ Overridden) => blits = <<"dynamic">>

\* C3 (amended): the override is drawn by exactly one drawImage, and it is
\* drawn after the bitmap, which is still blitted whenever the bitmap cache
\* holds an image under the key; the bitmap is absent only when the cache
\* has none.
C3_OverrideDrawnOverBitmap ==
  (pc = "shapes" /\ Overridden)
    => blits = (IF BitmapResolved THEN <<"bitmap">> ELSE <<>>) \o <<"dynamic">>

C3_Witness == pc = "shapes" /\ Overridden /\ BitmapResolved /\ Len(blits) = 2

\* C4 (as claimed): no shape is filled or stroked while a clip region is in
\* effect on the context.
C4_ShapesNotClipped ==
  \A i \in 1..Len(calls) : calls[i].op \in Paints => ~calls[i].clipped

\* C4 (amended): the clip set for the bitmap stays in effect for the
\* sprite's shapes, until the sprite's closing restore: a shape is filled
\* or stroked under a clip exactly when its sprite has a resolved bitmap
\* and a non-empty clip path.
C4_ShapesInheritClip ==
  \A i \in 1..Len(calls) :
    calls[i].op \in Paints
      => (calls[i].clipped <=> (BitmapResolved /\ Frame.clipPath # <<>>))

C4_Witness ==
  /\ pc = "shapes" /\ BitmapResolved /\ Frame.clipPath # <<>>
  /\ \E i \in 1..Len(calls) : calls[i].op \in Paints /\ calls[i].clipped

\* C5: clip() is called for a sprite exactly when it has a resolved bitmap
\* and a non-empty clip path, once, after the clip path's construction and
\* before the bitmap's drawImage; the bitmap is always blitted as
\* drawImage(img, 0, 0), with no destination size.
C5_ClipBeforeBlit ==
  /\ pc # "dynamic" => "clip" \notin Ops(calls)
  /\ pc = "dynamic" =>
       LET clips == Positions(calls, {"clip"})
           blit == Positions(calls, {"drawImage"})
           built == Positions(calls, {"beginPath", "moveTo", "lineTo", "closePath"})
       IN /\ (clips # {}) <=> (BitmapResolved /\ Frame.clipPath # <<>>)
          /\ Cardinality(clips) <= 1
          /\ (blit # {}) <=> BitmapResolved
          /\ \A c \in clips :
               /\ built # {}
               /\ \A b \in built : b < c
               /\ \A b \in blit : c < b
  /\ \A i \in 1..Len(calls) :
       (calls[i].op = "drawImage" /\ calls[i].src = "bitmap")
         => calls[i].args = <<Zero, Zero>>

C5_Witness ==
  /\ pc = "dynamic" /\ "clip" \in Ops(calls)
  /\ calls[Len(calls)].op = "drawImage" /\ calls[Len(calls)].src = "bitmap"

(***************************************************************************)
(* The drawing functions on their own: render is inside the block of one   *)
(* sprite, and the step under study is applied once                        *)
(***************************************************************************)
Rendered == {sp \in Sprites : ~Skipped(sp.frame)}

\* inside the block of sprite sp, at position at, the last shape pending
Inside(sp, at) ==
  /\ pc = at
  /\ hasContext = TRUE
  /\ bitmapCache = {}
  /\ baseDepth = 0
  /\ context = Run(NewContext(0), OpenCalls(sp.frame), <<>>).context
  /\ spriteNo = 0
  /\ sprite = <<sp>>
  /\ shapeNo = MaxShapes - 1
  /\ shape = <<>>
  /\ calls = <<>>
  /\ blits = <<>>

NoElements == [k \in Keys |-> <<>>]

InitShapes ==
  /\ dynamicElements = NoElements
  /\ \E sp \in Rendered : Inside(sp, "shapes")

DrawAnyShape == DrawShapeFrom(Shapes)
NextShapes == DrawAnyShape \/ CloseSprite
SpecShapes == InitShapes /\ [][NextShapes]_vars

PlainSprite ==
  [imageKey |-> "",
   frame |-> [alpha |-> One, transform |-> UnsetTransform, layout |-> Layout,
              clipPath |-> <<>>]]

InitPlain ==
  /\ dynamicElements = NoElements
  /\ Inside(PlainSprite, "shapes")

DrawPath == DrawShapeFrom(PathShapes)
NextPath == DrawPath \/ CloseSprite
SpecPath == InitPlain /\ [][NextPath]_vars

DrawRectangle == DrawShapeFrom(RectShapes)
NextRect == DrawRectangle \/ CloseSprite
SpecRect == InitPlain /\ [][NextRect]_vars

Sizes == {Num(n) : n \in 1..MaxSize}
Layouts == [width : Sizes \cup {Zero}, height : Sizes \cup {Zero}]

InitFit ==
  /\ \E el \in [fit : {<<>>, <<"contain">>, <<"cover">>, <<"fill">>, <<"none">>},
                source : [width : Sizes, height : Sizes]] :
       dynamicElements = [k \in Keys |-> <<el>>]
  /\ \E l \in Layouts :
       Inside([imageKey |-> "k1",
               frame |-> [alpha |-> One, transform |-> UnsetTransform,
                          layout |-> l, clipPath |-> <<>>]], "dynamic")

NextFit == DrawDynamic \/ CloseSprite
SpecFit == InitFit /\ [][NextFit]_vars

(***************************************************************************)
(* Properties of the drawing functions                                     *)
(***************************************************************************)
PathOps == {"beginPath", "moveTo", "lineTo", "bezierCurveTo", "quadraticCurveTo",
            "arcTo", "closePath"}
ShapeDrawn == pc = "shapes" /\ shape # <<>> /\ calls # <<>>

\* the calls of a path shape without transform or styles, between its
\* save, beginPath and its restore: one per command
Emitted == SubSeq(calls, 3, Len(calls) - 1)
Commands == shape[1].commands
PathDrawn == ShapeDrawn /\ "commands" \in DOMAIN shape[1]
Uppercase == {"M", "L", "H", "V", "C", "S", "Q", "Z"}

\* position of the last call among the first n emitted whose method is in
\* ops, 0 when there is none
RECURSIVE LastOf(_, _)
LastOf(n, ops) ==
  IF n = 0 THEN 0 ELSE IF Emitted[n].op \in ops THEN n ELSE LastOf(n - 1, ops)

\* the current point after the first n emitted calls: where the last of
\* them that has an endpoint ends, (0,0) when there is none
PointAfter(n) ==
  LET j == LastOf(n, PathOps \ {"beginPath", "closePath"}) IN
  IF j = 0 THEN <<Zero, Zero>>
  ELSE LET a == Emitted[j].args IN <<a[Len(a) - 1], a[Len(a)]>>

\* C7: a drawn shape of any kind gets fill() and no stroke() when its
\* style has a fill (also with a stroke), stroke() and no fill() when it
\* has a stroke and no fill, neither otherwise; the call comes after all
\* path construction and right before the shape's restore.
C7_FillElseStroke ==
  /\ ShapeDrawn =>
       LET st == shape[1].styles
           fills == Positions(calls, {"fill"})
           strokes == Positions(calls, {"stroke"})
           wantFill == st # <<>> /\ st[1].fill
           wantStroke == st # <<>> /\ ~st[1].fill /\ st[1].stroke
       IN /\ Cardinality(fills) = (IF wantFill THEN 1 ELSE 0)
          /\ Cardinality(strokes) = (IF wantStroke THEN 1 ELSE 0)
          /\ Positions(calls, PathOps) # {}
          /\ calls[Len(calls)].op = "restore"
          /\ \A q \in fills \cup strokes :
               /\ q = Len(calls) - 1
               /\ \A b \in Positions(calls, PathOps) : b < q
  /\ (pc = "shapes" /\ shape # <<>>)
       => (calls # <<>> <=>
             \/ shape[1].type = "SHAPE" /\ shape[1].shape # <<>> /\ shape[1].shape[1].d # <<>>
             \/ shape[1].type = "ELLIPSE" /\ shape[1].ellipse # <<>>
             \/ shape[1].type = "RECT" /\ shape[1].rect # <<>>)

C7_Witness ==
  /\ ShapeDrawn /\ shape[1].type = "ELLIPSE"
  /\ shape[1].styles # <<>> /\ shape[1].styles[1].fill /\ shape[1].styles[1].stroke
  /\ "fill" \in Ops(calls)

\* C8: the radius of the four arcTo calls of a rect is
\* min(cornerRadius, width/2, height/2): half the shorter side when
\* cornerRadius exceeds that, cornerRadius itself otherwise, so twice the
\* radius never exceeds the shorter side.
C8_RadiusClamped ==
  (ShapeDrawn /\ shape[1].type = "RECT") =>
    LET r == shape[1].rect[1]
        short == RMin(r.width, r.height)
        arcs == Positions(calls, {"arcTo"})
    IN /\ Cardinality(arcs) = 4
       /\ \A i \in arcs :
            LET radius == calls[i].args[5] IN
            /\ RLeq(RMul(Two, radius), short)
            /\ RLess(short, RMul(Two, r.cornerRadius)) => RMul(Two, radius) = short
            /\ ~RLess(short, RMul(Two, r.cornerRadius)) => radius = r.cornerRadius

C8_Witness ==
  /\ ShapeDrawn /\ shape[1].type = "RECT"
  /\ shape[1].rect[1].width = Num(3) /\ shape[1].rect[1].height = Num(2)
  /\ shape[1].rect[1].cornerRadius = Rat(5, 2)
  /\ \E i \in 1..Len(calls) : calls[i].op = "arcTo" /\ calls[i].args[5] = One

\* C9: for 'contain' and 'cover' the destination rectangle of the
\* override's drawImage is centred in the layout and keeps the source's
\* aspect ratio; 'contain' lies inside the layout and touches it in one
\* dimension, 'cover' covers the layout and matches it in one dimension.
C9_FitRectangle ==
  (pc = "shapes" /\ sprite # <<>> /\ Overridden
   /\ FitOf(dynamicElements[ImageKey][1]) \in {"contain", "cover"}) =>
    LET el == dynamicElements[ImageKey][1]
        sw == el.source.width
        sh == el.source.height
        lw == Frame.layout.width
        lh == Frame.layout.height
    IN /\ Len(calls) = 1
       /\ calls[1].op = "drawImage" /\ calls[1].src = "dynamic"
       /\ Len(calls[1].args) = 4
       /\ LET x == calls[1].args[1]
              y == calls[1].args[2]
              w == calls[1].args[3]
              h == calls[1].args[4]
          IN /\ RAdd(RAdd(x, x), w) = lw
             /\ RAdd(RAdd(y, y), h) = lh
             /\ RMul(w, sh) = RMul(h, sw)
             /\ el.fit = <<"contain">> =>
                  RLeq(w, lw) /\ RLeq(h, lh) /\ (w = lw \/ h = lh)
             /\ el.fit = <<"cover">> =>
                  RLeq(lw, w) /\ RLeq(lh, h) /\ (w = lw \/ h = lh)

C9_Witness ==
  /\ pc = "shapes" /\ sprite # <<>> /\ Overridden /\ Len(calls) = 1
  /\ dynamicElements[ImageKey][1].fit = <<"cover">>
  /\ calls[1].op = "drawImage"
  /\ RLess(Frame.layout.width, calls[1].args[3])
  /\ RLess(calls[1].args[1], Zero)

\* what command i of a line-only path must emit, given the current point
\* p the calls before it have reached
LineCall(c, p) ==
  LET up == c.m \in Uppercase
      X(k) == IF up THEN Num(c.a[k]) ELSE RAdd(p[1], Num(c.a[k]))
      Y(k) == IF up THEN Num(c.a[k]) ELSE RAdd(p[2], Num(c.a[k]))
  IN CASE c.m \in {"M", "m"} -> Call("moveTo", <<X(1), Y(2)>>)
       [] c.m \in {"L", "l"} -> Call("lineTo", <<X(1), Y(2)>>)
       [] c.m \in {"H", "h"} -> Call("lineTo", <<X(1), p[2]>>)
       [] c.m \in {"V", "v"} -> Call("lineTo", <<p[1], Y(1)>>)
       [] OTHER -> Call("closePath", <<>>)

LineLetters == {"M", "m", "L", "l", "H", "h", "V", "v", "Z", "z"}

SameCall(issued, call) == issued.op = call.op /\ issued.args = call.args

\* C10: a path of M/m/L/l/H/h/V/v/Z/z commands emits one call per command,
\* in order: moveTo for M/m, lineTo for L/l/H/h/V/v, closePath for Z/z,
\* uppercase arguments taken as absolute and lowercase ones added to the
\* current point, which starts at (0,0) and is the endpoint of the last
\* moveTo/lineTo emitted; "M0 0 L10 0 L10 10 Z" emits moveTo(0,0),
\* lineTo(10,0), lineTo(10,10), closePath.
C10_LineCommands ==
  (PathDrawn /\ \A i \in 1..Len(Commands) : Commands[i].m \in LineLetters) =>
    /\ Len(Emitted) = Len(Commands)
    /\ \A i \in 1..Len(Commands) :
         SameCall(Emitted[i], LineCall(Commands[i], PointAfter(i - 1)))
    /\ Commands = Triangle =>
         /\ [i \in 1..4 |-> Emitted[i].op] = <<"moveTo", "lineTo", "lineTo", "closePath">>
         /\ [i \in 1..3 |-> Emitted[i].args]
              = <<<<Zero, Zero>>, <<Num(10), Zero>>, <<Num(10), Num(10)>>>>

C10_Witness ==
  /\ PathDrawn /\ Commands = Triangle /\ shape[1].shape[1].d = TrianglePath
  /\ Len(Emitted) = 4 /\ Emitted[4].op = "closePath"

\* what an S/s command must emit from current point p: the cubic whose
\* first control point reflects prior, or the quadratic
SmoothCall(c, p, prior, reflected) ==
  LET up == c.m \in Uppercase
      X(k) == IF up THEN Num(c.a[k]) ELSE RAdd(p[1], Num(c.a[k]))
      Y(k) == IF up THEN Num(c.a[k]) ELSE RAdd(p[2], Num(c.a[k]))
  IN IF reflected
     THEN Call("bezierCurveTo",
               <<RSub(RMul(Two, p[1]), prior[1]), RSub(RMul(Two, p[2]), prior[2]),
                 X(1), Y(2), X(3), Y(4)>>)
     ELSE Call("quadraticCurveTo", <<X(1), Y(2), X(3), Y(4)>>)

\* the second control point of the last cubic emitted before command i,
\* and the first control point of the last curve emitted before it
PriorCubic(i) ==
  LET j == LastOf(i - 1, {"bezierCurveTo"}) IN
  IF j = 0 THEN <<Zero, Zero>> ELSE <<Emitted[j].args[3], Emitted[j].args[4]>>

PriorFirst(i) ==
  LET j == LastOf(i - 1, {"bezierCurveTo", "quadraticCurveTo"}) IN
  IF j = 0 THEN <<Zero, Zero>> ELSE <<Emitted[j].args[1], Emitted[j].args[2]>>

BothSet(c) == Truthy(c[1]) /\ Truthy(c[2])

SmoothAtStartOK ==
  Commands = SmoothAtStart =>
    /\ SameCall(Emitted[1], Call("moveTo", <<Zero, Zero>>))
    /\ SameCall(Emitted[2], Call("quadraticCurveTo",
                                 <<Num(10), Num(10), Num(20), Zero>>))

\* C6 (as claimed): S/s emits the reflecting cubic exactly when the control
\* point of the last cubic before it in the path is non-zero in both
\* coordinates, and the quadratic otherwise.
C6_SmoothByPriorCubic ==
  PathDrawn =>
    /\ Len(Emitted) = Len(Commands)
    /\ \A i \in 1..Len(Commands) :
         Commands[i].m \in {"S", "s"} =>
           SameCall(Emitted[i],
                    SmoothCall(Commands[i], PointAfter(i - 1), PriorCubic(i),
                               BothSet(PriorCubic(i))))
    /\ SmoothAtStartOK

\* C6 (amended): S/s emits the reflecting cubic exactly when all four
\* recorded control coordinates are non-zero: the second control point of
\* the last cubic before it, and also the first control point of the last
\* curve (cubic or quadratic) before it; otherwise the quadratic.
\* "M0 0 S10 10 20 0" emits moveTo(0,0), quadraticCurveTo(10,10,20,0).
C6_SmoothByAllFour ==
  PathDrawn =>
    /\ Len(Emitted) = Len(Commands)
    /\ \A i \in 1..Len(Commands) :
         Commands[i].m \in {"S", "s"} =>
           SameCall(Emitted[i],
                    SmoothCall(Commands[i], PointAfter(i - 1), PriorCubic(i),
                               BothSet(PriorCubic(i)) /\ BothSet(PriorFirst(i))))
    /\ SmoothAtStartOK

C6_Witness ==
  /\ PathDrawn
  /\ Commands = <<Cmd("C", <<0, 2, 10, 4, 5, 6>>), Cmd("S", <<10, 10, 20, 0>>),
                  Cmd("s", <<1, 1, 2, 2>>)>>
  /\ Emitted[2].op = "quadraticCurveTo"
  /\ Emitted[3].op = "bezierCurveTo" /\ Emitted[3].args[1] = Num(30)

\* the component the frame holds, or the default when it holds none
HeldOr(component, default) == IF IsNaN(component) THEN default ELSE component

\* C11: the block of a rendered sprite sets the global alpha to the
\* frame's alpha and applies the transform whose six components are the
\* frame's own for every value the frame holds, an explicit 0 included;
\* a = d = 1 and b = c = tx = ty = 0 stand in only for absent components.
C11_TransformAsHeld ==
  pc = "image" =>
    LET t == Frame.transform IN
    /\ Len(calls) = 3
    /\ calls[1].op = "save"
    /\ calls[2].op = "globalAlpha" /\ calls[2].args = <<Frame.alpha>>
    /\ context.g.globalAlpha = Frame.alpha
    /\ calls[3].op = "transform"
    /\ calls[3].args = <<HeldOr(t.a, One), HeldOr(t.b, Zero), HeldOr(t.c, Zero),
                         HeldOr(t.d, One), HeldOr(t.tx, Zero), HeldOr(t.ty, Zero)>>

====
